---- MODULE Spec2Model ----
(***************************************************************************)
(* A model of looks-same (src/index.js): the three image operations        *)
(* looksSame, getDiffArea and createDiff, the diff-image builder with its  *)
(* three-row noise-suppression window, and the bounding-box calculator.    *)
(*                                                                         *)
(* Real numbers are kept in tenths: the tolerance 2.3 is 23, and a colour  *)
(* distance of 2.0 is 20.  A colour is one small integer.  A JavaScript    *)
(* object is a function whose DOMAIN is the set of keys it has.  A sparse  *)
(* row array (currentRow[x] = true) is the set of the indexes x it holds.  *)
(***************************************************************************)
EXTENDS Integers, Sequences, FiniteSets, TLC

\* ---------------------------------------------------------------- bounds
MaxWidth == 3
MaxHeight == 3
MaxDiffs == 2
MaxCoordX == 5
MaxCoordY == 4
MaxCoords == 3

\* ------------------------------------------------------------- constants
JND == 23
HighlightColor == 9
NoColor == -1

VARIABLES
    op,             \* the exported function that was called
    given,          \* the options object as the caller passed it
    opts,           \* the options object (prepareOpts writes into it)
    pc,             \* position of the operation
    tolerance,      \* createDiff: const tolerance (a sequence of 0 or 1)
    pair,           \* readPair result of the images
    otherPair,      \* readPair result of opts.ignoreDifferentPixels
    comparator,     \* looksSame / getDiffArea: createComparator result
    diffOptions,    \* createDiff: diffOptions
    result,         \* buildDiffImage: result raster (cell -> paint)
    differences,    \* buildDiffImage: differences
    pixelIgnored,   \* buildDiffImage: pixelIgnored
    prevPrevRow,    \* buildDiffImage: prevPrevRow
    prevRow,        \* buildDiffImage: prevRow
    currentRow,     \* buildDiffImage: currentRow
    y,              \* iterateRect: the row the next processRow turn handles
    built,          \* arguments of buildDiffImage's completion callback
    delivered,      \* throws, callback calls, promise settlements, in order
    readPairCalls,  \* number of readPair calls
    pixelReads,     \* number of getPixel calls on input rasters
    comparatorCalls,\* number of comparator invocations
    saveCalls,      \* number of save calls on the diff raster
    oobWrites,      \* setPixel targets outside the result raster
    lateSetPixel,   \* a setPixel on the diff raster happened after save
    saveFailed,     \* save handed an error to its callback
    rowsScanned,    \* the row indexes handed to the pixel callback, in order
    checkedRows,    \* the arguments of checkRow, in order
    areaInput,      \* bounding-box calculator: its argument
    areaOutput,     \* bounding-box calculator: its return value
    endCalls,       \* number of endCallback invocations of iterateRect
    other,          \* the closure state of a second buildDiffImage call
    loadError,      \* readPair handed an error to its callback
    scanResult,     \* <<the list getDiffPixelsCoords handed to its callback>>
    callNo,         \* how many calls were made with the options object
    firstDelivered  \* what the first of two calls delivered

buildVars == <<result, differences, pixelIgnored, prevPrevRow, prevRow,
               currentRow, y, built, oobWrites, lateSetPixel, saveFailed,
               rowsScanned, checkedRows, endCalls>>
areaVars == <<areaInput, areaOutput>>
callVars == <<op, given, opts, tolerance>>
loadVars == <<pair, otherPair, comparator, diffOptions>>
countVars == <<readPairCalls, pixelReads, comparatorCalls, saveCalls>>
sideVars == <<other, loadError, scanResult, callNo, firstDelivered>>
vars == <<callVars, pc, loadVars, buildVars, delivered, countVars, areaVars,
          sideVars>>

\* --------------------------------------------------------------- helpers
Max(a, b) == IF a >= b THEN a ELSE b
Min(a, b) == IF a <= b THEN a ELSE b
Abs(a) == IF a < 0 THEN -a ELSE a

None == [none |-> TRUE]

\* A JavaScript object has a key when the key is in its DOMAIN; a missing
\* key reads as undefined, which is falsy.
Has(obj, key) == key \in DOMAIN obj
Truthy(obj, key) == IF Has(obj, key) THEN obj[key] = TRUE ELSE FALSE
Put(obj, key, val) ==
    [k \in DOMAIN obj \cup {key} |-> IF k = key THEN val ELSE obj[k]]

\* --------------------------------------------------------------- rasters
Cells(w, h) == (0 .. w - 1) \X (0 .. h - 1)

RefColor(c) == (c[1] + c[2]) % 2

\* The reference raster of a size, and a candidate raster that differs from
\* the reference pattern exactly on the cells of D.
RefRaster(w, h) ==
    [width |-> w, height |-> h, px |-> [c \in Cells(w, h) |-> RefColor(c)]]
CandRaster(w, h, D) ==
    [width |-> w, height |-> h,
     px |-> [c \in Cells(w, h) |->
                IF c \in D THEN RefColor(c) + 2 ELSE RefColor(c)]]

\* The sets of at most k cells of a w-wide raster among those numbered
\* lo .. hi in scan order.
RECURSIVE CellSets(_, _, _, _)
CellSets(w, lo, hi, k) ==
    IF k = 0 \/ lo > hi THEN {{}}
    ELSE CellSets(w, lo + 1, hi, k)
         \cup { t \cup {<<lo % w, lo \div w>>} : t \in CellSets(w, lo + 1, hi, k - 1) }

\* The image pairs readPair yields: two rasters of any sizes that differ on
\* at most MaxDiffs cells of the area they share.
Sizes == (1 .. MaxWidth) \X (1 .. MaxHeight)
Pairs(s1, s2) ==
    { [first |-> RefRaster(s1[1], s1[2]), second |-> CandRaster(s2[1], s2[2], D)] :
        D \in CellSets(Min(s1[1], s2[1]), 0,
                       Min(s1[1], s2[1]) * Min(s1[2], s2[2]) - 1, MaxDiffs) }

\* The pairs readPair yields for opts.ignoreDifferentPixels when the images
\* are the pair p: the same two images, two images without a difference, two
\* images that differ where p does in the first column, and two images of
\* one row of which the second is one pixel wide.
MaskPairs(p) ==
    LET D == {c \in DOMAIN p.first.px \cap DOMAIN p.second.px :
                 p.first.px[c] # p.second.px[c]}
    IN  { p,
          [first |-> p.first, second |-> p.first],
          [first |-> p.first,
           second |-> CandRaster(p.second.width, p.second.height,
                                 {c \in D : c[1] = 0})],
          [first |-> RefRaster(2, 1), second |-> RefRaster(1, 1)] }

getPixel(png, x, yy) ==
    IF <<x, yy>> \in DOMAIN png.px THEN png.px[<<x, yy>>] ELSE NoColor

\* ----------------------------------------------------------- comparators
\* lib/same-colors: true iff all channels are equal.
areColorsSame(c1, c2) == c1 = c2

\* colorDiff.diff(rgb_to_lab(c1), rgb_to_lab(c2)), in tenths: the supplied
\* distance function, here 1.0 per step between two colours.
ciede2000(c1, c2) == 10 * Abs(c1 - c2)

doColorsLookSame(tol, c1, c2) ==
    IF areColorsSame(c1, c2) THEN TRUE ELSE ciede2000(c1, c2) < tol

makeCIEDE2000Comparator(tol) ==
    [base |-> "CIEDE2000", tolerance |-> tol, wrappers |-> <<>>]

strictComparator == [base |-> "areColorsSame", wrappers |-> <<>>]

makeAntialiasingComparator(cmp) ==
    [cmp EXCEPT !.wrappers = Append(@, "antialiasing")]

makeNoCaretColorComparator(cmp) ==
    [cmp EXCEPT !.wrappers = Append(@, "caret")]

createComparator(o) ==
    LET c0 == IF Truthy(o, "strict") THEN strictComparator
              ELSE makeCIEDE2000Comparator(o.tolerance)
        c1 == IF Truthy(o, "ignoreAntialiasing")
              THEN makeAntialiasingComparator(c0) ELSE c0
    IN  IF Truthy(o, "ignoreCaret") THEN makeNoCaretColorComparator(c1) ELSE c1

\* The base comparator of a comparator chain applied to two colours.
baseCompare(cmp, c1, c2) ==
    IF cmp.base = "areColorsSame" THEN areColorsSame(c1, c2)
    ELSE doColorsLookSame(cmp.tolerance, c1, c2)

\* ------------------------------------------------------------ getDiffArea
RECURSIVE MathMin(_)
MathMin(s) ==
    IF Len(s) = 1 THEN s[1] ELSE Min(s[1], MathMin(Tail(s)))

RECURSIVE MathMax(_)
MathMax(s) ==
    IF Len(s) = 1 THEN s[1] ELSE Max(s[1], MathMax(Tail(s)))

\* variant: width and height without the + 1
getDiffArea_noPlusOne(diffPixelsCoords) ==
    LET xs == [i \in 1 .. Len(diffPixelsCoords) |-> diffPixelsCoords[i][1]]
        ys == [i \in 1 .. Len(diffPixelsCoords) |-> diffPixelsCoords[i][2]]
    IN  [left |-> MathMin(xs), top |-> MathMin(ys),
         width |-> MathMax(xs) - MathMin(xs),
         height |-> MathMax(ys) - MathMin(ys)]

\* Math.min of no numbers is Infinity and Math.max is -Infinity, so an empty
\* list gives a left and top of Infinity and a width and height of -Infinity.
getDiffArea(diffPixelsCoords) ==
    IF diffPixelsCoords = <<>>
    THEN [left |-> "Infinity", top |-> "Infinity",
          width |-> "-Infinity", height |-> "-Infinity"]
    ELSE
    LET xs == [i \in 1 .. Len(diffPixelsCoords) |-> diffPixelsCoords[i][1]]
        ys == [i \in 1 .. Len(diffPixelsCoords) |-> diffPixelsCoords[i][2]]
        top == MathMin(ys)
        bottom == MathMax(ys)
        left == MathMin(xs)
        right == MathMax(xs)
        width == (right - left) + 1
        height == (bottom - top) + 1
    IN  [left |-> left, top |-> top, width |-> width, height |-> height]

\* ---------------------------------------------------------------- options
\* variant: strict is not checked
getToleranceFromOpts_noThrow(o) ==
    IF ~Has(o, "tolerance") THEN [threw |-> FALSE, value |-> JND]
    ELSE [threw |-> FALSE, value |-> o.tolerance]

getToleranceFromOpts(o) ==
    IF ~Has(o, "tolerance") THEN [threw |-> FALSE, value |-> JND]
    ELSE IF Truthy(o, "strict") THEN [threw |-> TRUE, value |-> 0]
    ELSE [threw |-> FALSE, value |-> o.tolerance]

prepareOpts(o) ==
    LET t == getToleranceFromOpts(o)
        o1 == Put(o, "tolerance", t.value)
    IN  IF t.threw THEN [threw |-> TRUE, opts |-> o]
        ELSE [threw |-> FALSE,
              opts |-> IF ~Has(o1, "ignoreAntialiasing")
                       THEN Put(o1, "ignoreAntialiasing", TRUE) ELSE o1]

\* The options objects a caller passes: each key is missing (<<>>) or set.
MkOpts(s, t, a, c, m) ==
    LET val(k) == CASE k = "strict" -> s
                    [] k = "tolerance" -> t
                    [] k = "ignoreAntialiasing" -> a
                    [] k = "ignoreCaret" -> c
                    [] k = "ignoreDifferentPixels" -> m
        keys == {"strict", "tolerance", "ignoreAntialiasing", "ignoreCaret",
                 "ignoreDifferentPixels"}
    IN  [k \in {kk \in keys : val(kk) # <<>>} |-> val(k)[1]]

StrictChoices == {<<>>, <<TRUE>>}
ToleranceChoices == {<<>>, <<-10>>, <<10>>}
WrapperChoices == {<< <<>>, <<>> >>, << <<FALSE>>, <<>> >>, << <<>>, <<TRUE>> >>}

ScanOpts ==
    { MkOpts(s, t, w[1], w[2], <<>>) :
        s \in StrictChoices, t \in ToleranceChoices, w \in WrapperChoices }
DiffOpts ==
    { MkOpts(s, t, <<>>, <<>>, <<>>) :
        s \in StrictChoices, t \in ToleranceChoices }
    \cup { MkOpts(<<TRUE>>, <<>>, <<>>, <<>>, <<TRUE>>) }

\* ----------------------------------------------------- what a call delivers
Throw(e) == [kind |-> "throw", err |-> e, value |-> <<>>]
Callback(e, v) == [kind |-> "callback", err |-> e, value |-> v]
Resolve(v) == [kind |-> "resolve", err |-> "null", value |-> <<v>>]
Reject(e) == [kind |-> "reject", err |-> e, value |-> <<>>]

\* ---------------------------------------------------------- buildDiffImage
Paint(c, a) == [color |-> c, alpha |-> a]
Blank == Paint(NoColor, <<>>)

\* png.empty(width, height)
empty(w, h) == [c \in Cells(w, h) |-> Blank]

width == Max(pair.first.width, pair.second.width)
height == Max(pair.first.height, pair.second.height)
minWidth == Min(pair.first.width, pair.second.width)
minHeight == Min(pair.first.height, pair.second.height)

\* diffOptions.ignoreDifferentPixels(x, y) of createDiff
ignoreDifferentPixels(x, yy) ==
    LET png1 == otherPair.first
        png2 == otherPair.second
        maxW == Max(png1.width, png2.width)
        maxH == Max(png1.height, png2.height)
        minW == Min(png1.width, png2.width)
        minH == Min(png1.height, png2.height)
    IN  IF x >= minW THEN x < maxW
        ELSE IF yy >= minH THEN yy < maxH
        ELSE ~baseCompare(diffOptions.comparator,
                          getPixel(png1, x, yy), getPixel(png2, x, yy))

\* The predicate reads two mask pixels and runs the comparator once exactly
\* when it reaches its last branch.
ignoreReadsMask(x, yy) ==
    /\ x < Min(otherPair.first.width, otherPair.second.width)
    /\ yy < Min(otherPair.first.height, otherPair.second.height)

\* The branch the pixel callback takes at (x, y).
\* variant: the ignore predicate is never asked
pixelClass_noIgnore(x, yy) ==
    IF x >= minWidth \/ yy >= minHeight THEN "outside"
    ELSE IF ~baseCompare(diffOptions.comparator,
                         getPixel(pair.first, x, yy), getPixel(pair.second, x, yy))
         THEN "flagged"
         ELSE "same"

pixelClass(x, yy) ==
    IF x >= minWidth \/ yy >= minHeight THEN "outside"
    ELSE IF ~baseCompare(diffOptions.comparator,
                         getPixel(pair.first, x, yy), getPixel(pair.second, x, yy))
         THEN IF diffOptions.ignoreDifferentPixels /\ ignoreDifferentPixels(x, yy)
              THEN "ignored" ELSE "flagged"
         ELSE "same"

\* What the pixel callback paints at (x, y).
pixelPaint(x, yy) ==
    IF pixelClass(x, yy) \in {"outside", "flagged"}
    THEN Paint(HighlightColor, <<>>)
    ELSE Paint(getPixel(pair.first, x, yy), <<100>>)

\* variant: the pixel itself counts as its own neighbour
hasNeighboorDiff_self(x, pp, p, c) ==
    \/ (x - 1) \in pp \/ x \in pp \/ (x + 1) \in pp
    \/ (x - 1) \in p \/ x \in p \/ (x + 1) \in p
    \/ (x - 1) \in c \/ x \in c \/ (x + 1) \in c

\* variant: the next row is not looked at
hasNeighboorDiff_noNextRow(x, pp, p, c) ==
    \/ (x - 1) \in pp \/ x \in pp \/ (x + 1) \in pp
    \/ (x - 1) \in p \/ (x + 1) \in p

hasNeighboorDiff(x, pp, p, c) ==
    \/ (x - 1) \in pp \/ x \in pp \/ (x + 1) \in pp
    \/ (x - 1) \in p \/ (x + 1) \in p
    \/ (x - 1) \in c \/ x \in c \/ (x + 1) \in c

\* checkRow(y) with the three rows as they are when it runs; st carries the
\* raster, the counter, the out-of-raster writes and the pixel reads.
checkRow(yy, pp, p, c, st) ==
    LET lone == {x \in p : ~hasNeighboorDiff(x, pp, p, c)}
    IN  [result |-> [cell \in DOMAIN st.result |->
                        IF cell[2] = yy /\ cell[1] \in lone
                        THEN Paint(getPixel(pair.first, cell[1], yy), <<100>>)
                        ELSE st.result[cell]],
         differences |-> st.differences - Cardinality(lone),
         oob |-> st.oob \cup
                 {<<x, yy>> : x \in {xx \in lone : <<xx, yy>> \notin DOMAIN st.result}},
         reads |-> st.reads + Cardinality(lone)]

isLastRowOf(yy, h) == yy >= h

\* the buildDiffImage callback of createDiff saves the raster unless equal
\* variant: the raster is saved whatever the builder reports
savesDiff_always(equal) == TRUE

savesDiff(equal) == ~equal

\* ------------------------------------------------------------------- Init
Idle ==
    /\ tolerance = <<>>
    /\ pair = None /\ otherPair = None /\ comparator = None /\ diffOptions = None
    /\ result = <<>> /\ differences = 0 /\ pixelIgnored = FALSE
    /\ prevPrevRow = {} /\ prevRow = {} /\ currentRow = {}
    /\ y = 0 /\ built = None /\ delivered = <<>>
    /\ readPairCalls = 0 /\ pixelReads = 0 /\ comparatorCalls = 0 /\ saveCalls = 0
    /\ oobWrites = {} /\ lateSetPixel = FALSE /\ saveFailed = FALSE
    /\ rowsScanned = <<>> /\ checkedRows = <<>> /\ endCalls = 0
    /\ other = None /\ loadError = FALSE /\ scanResult = <<>>
    /\ callNo = 1 /\ firstDelivered = <<>>

Init ==
    /\ \/ op \in {"looksSame", "getDiffArea"} /\ given \in ScanOpts
       \/ op = "createDiff" /\ given \in DiffOpts
    /\ opts = given
    /\ pc = "start"
    /\ Idle
    /\ areaInput = <<>> /\ areaOutput = None

\* ---------------------------------------------------- the synchronous part
\* looksSame(reference, image, opts, callback) up to its readPair call
looksSame ==
    /\ pc = "start" /\ op = "looksSame"
    /\ LET p == prepareOpts(opts)
       IN  IF p.threw
           THEN /\ delivered' = Append(delivered, Throw("TypeError"))
                /\ pc' = "done"
                /\ UNCHANGED <<opts, readPairCalls>>
           ELSE /\ opts' = p.opts
                /\ readPairCalls' = readPairCalls + 1
                /\ pc' = "reading"
                /\ UNCHANGED delivered
    /\ UNCHANGED <<op, given, tolerance, loadVars, buildVars, pixelReads,
                   comparatorCalls, saveCalls, areaVars, sideVars>>

\* exports.getDiffArea(reference, image, opts, callback) up to readPair
exportsGetDiffArea ==
    /\ pc = "start" /\ op = "getDiffArea"
    /\ LET p == prepareOpts(opts)
       IN  IF p.threw
           THEN /\ delivered' = Append(delivered, Throw("TypeError"))
                /\ pc' = "done"
                /\ UNCHANGED <<opts, readPairCalls>>
           ELSE /\ opts' = p.opts
                /\ readPairCalls' = readPairCalls + 1
                /\ pc' = "reading"
                /\ UNCHANGED delivered
    /\ UNCHANGED <<op, given, tolerance, loadVars, buildVars, pixelReads,
                   comparatorCalls, saveCalls, areaVars, sideVars>>

\* exports.createDiff(opts) up to its readPair call
createDiff ==
    /\ pc = "start" /\ op = "createDiff"
    /\ LET t == getToleranceFromOpts(opts)
       IN  IF t.threw
           THEN /\ delivered' = Append(delivered, Throw("TypeError"))
                /\ pc' = "done"
                /\ UNCHANGED <<tolerance, readPairCalls>>
           ELSE /\ tolerance' = <<t.value>>
                /\ readPairCalls' = readPairCalls + 1
                /\ pc' = "reading"
                /\ UNCHANGED delivered
    /\ UNCHANGED <<op, given, opts, loadVars, buildVars, pixelReads,
                   comparatorCalls, saveCalls, areaVars, sideVars>>

\* ------------------------------------------------ looksSame / getDiffArea
\* variant: only the widths are compared
sameSize_widthOnly(p) == ~(p.first.width # p.second.width)

sameSize(p) ==
    ~(p.first.width # p.second.width \/ p.first.height # p.second.height)

\* what a readPair callback does with the error it is handed
\* variant: the error is dropped and the caller is told nothing went wrong
loadFailure_swallowed(o) ==
    IF o = "createDiff" THEN Resolve([equal |-> TRUE])
    ELSE Callback("null", <<TRUE>>)

loadFailure(o) ==
    IF o = "createDiff" THEN Reject("LoadError")
    ELSE Callback("LoadError", <<>>)

\* The images of the sizes s1 and s2 readPair can hand its callback: on a
\* second call the images of the first call.
readable(s1, s2) ==
    IF callNo = 1 THEN Pairs(s1, s2)
    ELSE IF /\ s1 = <<pair.first.width, pair.first.height>>
            /\ s2 = <<pair.second.width, pair.second.height>>
         THEN {pair} ELSE {}

\* the readPair callback of looksSame
looksSameOnPair ==
    /\ pc = "reading" /\ op = "looksSame"
    /\ \/ /\ delivered' = Append(delivered, loadFailure(op))
          /\ loadError' = TRUE
          /\ pc' = "done"
          /\ UNCHANGED <<pair, comparator>>
       \/ \E s1 \in Sizes, s2 \in Sizes : \E p \in readable(s1, s2) :
             /\ pair' = p
             /\ UNCHANGED loadError
             /\ IF ~sameSize(p)
                THEN pc' = "tick" /\ UNCHANGED comparator
                ELSE pc' = "scan" /\ comparator' = createComparator(opts)
             /\ UNCHANGED delivered
    /\ UNCHANGED <<callVars, otherPair, diffOptions, buildVars, countVars,
                   areaVars, other, scanResult, callNo, firstDelivered>>

\* the readPair callback of exports.getDiffArea
getDiffAreaOnPair ==
    /\ pc = "reading" /\ op = "getDiffArea"
    /\ \/ /\ delivered' = Append(delivered, loadFailure(op))
          /\ loadError' = TRUE
          /\ pc' = "done"
          /\ UNCHANGED <<pair, comparator>>
       \/ \E s1 \in Sizes, s2 \in Sizes : \E p \in readable(s1, s2) :
             /\ pair' = p
             /\ UNCHANGED loadError
             /\ IF ~sameSize(p)
                THEN pc' = "tick" /\ UNCHANGED comparator
                ELSE pc' = "scan" /\ comparator' = createComparator(opts)
             /\ UNCHANGED delivered
    /\ UNCHANGED <<callVars, otherPair, diffOptions, buildVars, countVars,
                   areaVars, other, scanResult, callNo, firstDelivered>>

\* the rectangle exports.getDiffArea reports for rasters of different sizes
\* variant: the size of the first raster instead of the larger one
fullCanvasArea_first(first, second) ==
    [width |-> first.width, height |-> first.height, top |-> 0, left |-> 0]

fullCanvasArea(first, second) ==
    [width |-> Max(first.width, second.width),
     height |-> Max(first.height, second.height),
     top |-> 0, left |-> 0]

\* the process.nextTick callback of the size-mismatch branch
nextTick ==
    /\ pc = "tick"
    /\ delivered' = Append(delivered,
          IF op = "looksSame" THEN Callback("null", <<FALSE>>)
          ELSE Callback("null", <<fullCanvasArea(pair.first, pair.second)>>))
    /\ pc' = "done"
    /\ UNCHANGED <<callVars, loadVars, buildVars, countVars, areaVars,
                   sideVars>>

\* utils.getDiffPixelsCoords: the coordinates, in row order, at which the
\* comparator chain reports a mismatch; only the first one with
\* stopOnFirstFail.  A wrapper of the chain can only turn a mismatch of the
\* base comparator into a match.
scanOrder ==
    [i \in 1 .. width * height |-> <<(i - 1) % width, (i - 1) \div width>>]
baseMismatch(c) ==
    ~baseCompare(comparator, getPixel(pair.first, c[1], c[2]),
                 getPixel(pair.second, c[1], c[2]))
Weakenings(M) == IF comparator.wrappers = <<>> THEN {{}} ELSE {{}, M}

getDiffPixelsCoords(weak, stopOnFirstFail) ==
    LET keep(c) == baseMismatch(c) /\ c \notin weak
        all == SelectSeq(scanOrder, keep)
    IN  IF stopOnFirstFail /\ all # <<>> THEN <<all[1]>> ELSE all

\* whether exports.getDiffArea reports null instead of a rectangle
\* variant: the calculator is called whatever the scan found
noDiffArea_never(res) == FALSE

noDiffArea(res) == Len(res) = 0

\* the getDiffPixelsCoords callback of looksSame and of exports.getDiffArea
onDiffPixelsCoords ==
    /\ pc = "scan"
    /\ \E weak \in Weakenings({c \in Cells(width, height) : baseMismatch(c)}) :
          LET res == getDiffPixelsCoords(weak, op = "looksSame")
          IN  /\ scanResult' = <<res>>
              /\ IF op = "looksSame"
                 THEN /\ delivered' =
                           Append(delivered, Callback("null", <<Len(res) = 0>>))
                      /\ UNCHANGED areaVars
                 ELSE IF noDiffArea(res)
                 THEN /\ delivered' = Append(delivered, Callback("null", <<None>>))
                      /\ UNCHANGED areaVars
                 ELSE /\ areaInput' = res
                      /\ areaOutput' = getDiffArea(res)
                      /\ delivered' =
                           Append(delivered, Callback("null", <<getDiffArea(res)>>))
    /\ pixelReads' = pixelReads + 2 * width * height
    /\ comparatorCalls' = comparatorCalls + width * height
    /\ pc' = "done"
    /\ UNCHANGED <<callVars, loadVars, buildVars, readPairCalls, saveCalls,
                   other, loadError, callNo, firstDelivered>>

\* -------------------------------------------------------------- createDiff
\* buildDiffImage up to its iterateRect call, which schedules row 0
buildStart(p) ==
    /\ result' = empty(Max(p.first.width, p.second.width),
                       Max(p.first.height, p.second.height))
    /\ differences' = 0
    /\ pixelIgnored' = FALSE
    /\ prevPrevRow' = {} /\ prevRow' = {} /\ currentRow' = {}
    /\ y' = 0
    /\ UNCHANGED <<built, oobWrites, lateSetPixel, saveFailed, rowsScanned,
                   checkedRows, endCalls>>

\* the readPair callback of createDiff
createDiffOnPair ==
    /\ pc = "reading" /\ op = "createDiff"
    /\ \/ /\ delivered' = Append(delivered, loadFailure(op))
          /\ loadError' = TRUE
          /\ pc' = "done"
          /\ UNCHANGED <<pair, diffOptions, buildVars, readPairCalls>>
       \/ \E s1 \in Sizes, s2 \in Sizes : \E p \in readable(s1, s2) :
             /\ pair' = p
             /\ UNCHANGED loadError
             /\ diffOptions' =
                   [highlightColor |-> HighlightColor,
                    comparator |-> IF Truthy(opts, "strict") THEN strictComparator
                                   ELSE makeCIEDE2000Comparator(tolerance[1]),
                    ignoreDifferentPixels |-> FALSE]
             /\ IF Truthy(opts, "ignoreDifferentPixels")
                THEN /\ readPairCalls' = readPairCalls + 1
                     /\ pc' = "readingMask"
                     /\ UNCHANGED buildVars
                ELSE /\ buildStart(p)
                     /\ pc' = "rows"
                     /\ UNCHANGED readPairCalls
             /\ UNCHANGED delivered
    /\ UNCHANGED <<callVars, otherPair, comparator, pixelReads,
                   comparatorCalls, saveCalls, areaVars, other, scanResult,
                   callNo, firstDelivered>>

\* the readPair callback of the opts.ignoreDifferentPixels pair
createDiffOnOtherPair ==
    /\ pc = "readingMask"
    /\ \/ /\ delivered' = Append(delivered, loadFailure(op))
          /\ loadError' = TRUE
          /\ pc' = "done"
          /\ UNCHANGED <<otherPair, diffOptions, buildVars>>
       \/ \E p \in MaskPairs(pair) :
             /\ otherPair' = p
             /\ UNCHANGED loadError
             /\ diffOptions' = [diffOptions EXCEPT !.ignoreDifferentPixels = TRUE]
             /\ buildStart(pair)
             /\ pc' = "rows"
             /\ UNCHANGED delivered
    /\ UNCHANGED <<callVars, pair, comparator, countVars, areaVars, other,
                   scanResult, callNo, firstDelivered>>

\* iterateRect: the row the next turn works on
\* variant: every other row is left out
nextRow_skip(yy) == yy + 2

nextRow(yy) == yy + 1

\* iterateRect: what a turn does once its row is finished
\* variant: after the last row nothing is scheduled and nothing is called
afterRow_silent(isLastRow) == IF ~isLastRow THEN "processRow" ELSE "nothing"

afterRow(isLastRow) == IF ~isLastRow THEN "processRow" ELSE "endCallback"

\* rowDoneCallback: the window moves down by one row
\* variant: the row above is not replaced
rotate_stale(pp, p, c) == [prevPrevRow |-> pp, prevRow |-> p, currentRow |-> {}]

rotate(pp, p, c) == [prevPrevRow |-> p, prevRow |-> c, currentRow |-> {}]

\* The call whose differences, pixelIgnored, prevPrevRow, prevRow and
\* currentRow the callbacks of a buildDiffImage call read and write: the
\* variables are declared in the body of buildDiffImage.
\* variant: the variables are declared once, outside of buildDiffImage
closureOf_shared(call) == 1

closureOf(call) == call

\* the pixel callback for every x of row b.y (iterateRect's for loop): the
\* raster, the counter, the out-of-raster writes, the pixel reads, the
\* comparator calls, the flag and the flags of the row
scanRow(b) ==
    LET yy == b.y
        xs == 0 .. width - 1
        inside == {x \in xs : pixelClass(x, yy) # "outside"}
        flagged == {x \in xs : pixelClass(x, yy) = "flagged"}
        ignored == {x \in xs : pixelClass(x, yy) = "ignored"}
        asked == IF diffOptions.ignoreDifferentPixels
                 THEN {x \in inside : pixelClass(x, yy) # "same"} ELSE {}
        masked == {x \in asked : ignoreReadsMask(x, yy)}
    IN  [result |-> [cell \in DOMAIN b.result |->
                        IF cell[2] = yy /\ cell[1] \in xs
                        THEN pixelPaint(cell[1], yy) ELSE b.result[cell]],
         differences |-> b.differences + Cardinality(flagged),
         oob |-> b.oobWrites \cup
                 {<<x, yy>> : x \in {xx \in xs : <<xx, yy>> \notin DOMAIN b.result}},
         reads |-> b.pixelReads + 2 * Cardinality(inside)
                                + 2 * Cardinality(masked),
         calls |-> b.comparatorCalls + Cardinality(inside) + Cardinality(masked),
         pixelIgnored |-> (b.pixelIgnored \/ ignored # {}),
         currentRow |-> flagged]

\* rowDoneCallback(y, isLastRow) after the pixel callbacks left s
rowDone(b, s) ==
    LET isLastRow == isLastRowOf(b.y, height)
        st1 == checkRow(b.y - 1, b.prevPrevRow, b.prevRow, s.currentRow, s)
        rot == rotate(b.prevPrevRow, b.prevRow, s.currentRow)
        st2 == IF isLastRow
               THEN checkRow(b.y, rot.prevPrevRow, rot.prevRow, rot.currentRow, st1)
               ELSE st1
    IN  [result |-> st2.result, differences |-> st2.differences,
         oob |-> st2.oob, reads |-> st2.reads,
         calls |-> s.calls, pixelIgnored |-> s.pixelIgnored,
         prevPrevRow |-> rot.prevPrevRow, prevRow |-> rot.prevRow,
         currentRow |-> rot.currentRow]

\* the end of the turn after rowDoneCallback left d: y++, then processRow(y)
\* or the endCallback with the buildDiffImage callback of createDiff's
\* start()
rowEnd(b, d) ==
    LET then == afterRow(isLastRowOf(b.y, height))
        equal == d.differences = 0
        saves == then = "endCallback" /\ savesDiff(equal)
    IN  [result |-> d.result,
         differences |-> d.differences,
         pixelIgnored |-> d.pixelIgnored,
         prevPrevRow |-> d.prevPrevRow,
         prevRow |-> d.prevRow,
         currentRow |-> d.currentRow,
         y |-> nextRow(b.y),
         built |-> IF then = "endCallback"
                   THEN [equal |-> equal, pixelIgnored |-> d.pixelIgnored]
                   ELSE b.built,
         endCalls |-> IF then = "endCallback" THEN b.endCalls + 1 ELSE b.endCalls,
         oobWrites |-> d.oob,
         lateSetPixel |-> (b.lateSetPixel \/ b.saveCalls > 0),
         rowsScanned |-> Append(b.rowsScanned, b.y),
         checkedRows |-> IF isLastRowOf(b.y, height)
                         THEN b.checkedRows \o <<b.y - 1, b.y>>
                         ELSE Append(b.checkedRows, b.y - 1),
         pixelReads |-> d.reads,
         comparatorCalls |-> d.calls,
         saveCalls |-> IF saves THEN b.saveCalls + 1 ELSE b.saveCalls,
         delivered |-> IF then = "endCallback" /\ ~saves
                       THEN Append(b.delivered,
                                   Resolve([equal |-> TRUE,
                                            pixelIgnored |-> d.pixelIgnored]))
                       ELSE b.delivered,
         pc |-> IF then = "processRow" THEN "rows"
                ELSE IF then # "endCallback" THEN "idle"
                ELSE IF saves THEN "saving" ELSE "done"]

\* one setImmediate turn of iterateRect's processRow(y) inside
\* buildDiffImage, for the call whose state is b: the three steps above, one
\* after the other
rowTurn(b) ==
    CHOOSE e \in {rowEnd(b, d) : d \in {rowDone(b, s) : s \in {scanRow(b)}}} : TRUE

\* the state of the buildDiffImage call of the createDiff call in op
self ==
    [result |-> result, differences |-> differences,
     pixelIgnored |-> pixelIgnored, prevPrevRow |-> prevPrevRow,
     prevRow |-> prevRow, currentRow |-> currentRow, y |-> y, built |-> built,
     endCalls |-> endCalls, oobWrites |-> oobWrites,
     lateSetPixel |-> lateSetPixel, rowsScanned |-> rowsScanned,
     checkedRows |-> checkedRows, pixelReads |-> pixelReads,
     comparatorCalls |-> comparatorCalls, saveCalls |-> saveCalls,
     delivered |-> delivered, pc |-> pc]

\* the state b of a call, with the variables of the closure c
withClosure(b, c) ==
    [b EXCEPT !.differences = c.differences, !.pixelIgnored = c.pixelIgnored,
              !.prevPrevRow = c.prevPrevRow, !.prevRow = c.prevRow,
              !.currentRow = c.currentRow]

\* a turn of the first call
processRow ==
    /\ pc = "rows"
    /\ \E b \in {rowTurn(self)} :
           /\ result' = b.result
           /\ differences' = b.differences
           /\ pixelIgnored' = b.pixelIgnored
           /\ prevPrevRow' = b.prevPrevRow
           /\ prevRow' = b.prevRow
           /\ currentRow' = b.currentRow
           /\ y' = b.y
           /\ built' = b.built
           /\ endCalls' = b.endCalls
           /\ oobWrites' = b.oobWrites
           /\ lateSetPixel' = b.lateSetPixel
           /\ rowsScanned' = b.rowsScanned
           /\ checkedRows' = b.checkedRows
           /\ pixelReads' = b.pixelReads
           /\ comparatorCalls' = b.comparatorCalls
           /\ saveCalls' = b.saveCalls
           /\ delivered' = b.delivered
           /\ pc' = b.pc
    /\ UNCHANGED <<callVars, loadVars, readPairCalls, areaVars, saveFailed,
                   sideVars>>

\* the callback of pair.save(opts.diff, callback)
saveCallback ==
    /\ pc = "saving"
    /\ \E error \in BOOLEAN :
          /\ saveFailed' = error
          /\ delivered' = Append(delivered,
                IF error THEN Reject("SaveError") ELSE Resolve([equal |-> FALSE]))
    /\ pc' = "done"
    /\ UNCHANGED <<callVars, loadVars, result, differences, pixelIgnored,
                   prevPrevRow, prevRow, currentRow, y, built, oobWrites,
                   lateSetPixel, rowsScanned, checkedRows, endCalls, countVars,
                   areaVars, sideVars>>

\* ------------------------------------------------------------------- Spec
Next ==
    \/ looksSame
    \/ exportsGetDiffArea
    \/ createDiff
    \/ looksSameOnPair
    \/ getDiffAreaOnPair
    \/ nextTick
    \/ onDiffPixelsCoords
    \/ createDiffOnPair
    \/ createDiffOnOtherPair
    \/ processRow
    \/ saveCallback

Spec == Init /\ [][Next]_vars

\* ------------------------------------- the bounding-box calculator alone
\* The caller collects the list of differing coordinates as a scan does:
\* row after row and left to right in a row, each coordinate at most once.
Coords == (0 .. MaxCoordX) \X (0 .. MaxCoordY)
scansBefore(c, d) == c[2] < d[2] \/ (c[2] = d[2] /\ c[1] < d[1])

InitArea ==
    /\ op = "none" /\ given = <<>> /\ opts = <<>> /\ pc = "done"
    /\ Idle
    /\ areaInput = <<>>
    /\ areaOutput = None

\* diffPixelsCoords.push([x, y]) of the scan
pushCoords ==
    /\ areaOutput = None
    /\ Len(areaInput) < MaxCoords
    /\ \E c \in Coords :
          /\ IF areaInput = <<>> THEN TRUE
             ELSE scansBefore(areaInput[Len(areaInput)], c)
          /\ areaInput' = Append(areaInput, c)
    /\ UNCHANGED <<callVars, pc, loadVars, buildVars, delivered, countVars,
                   areaOutput, sideVars>>

\* getDiffArea(result) on the list collected, which the caller has checked
\* to be non-empty
callGetDiffArea ==
    /\ areaOutput = None
    /\ areaInput # <<>>
    /\ areaOutput' = getDiffArea(areaInput)
    /\ UNCHANGED <<callVars, pc, loadVars, buildVars, delivered, countVars,
                   areaInput, sideVars>>

NextArea == pushCoords \/ callGetDiffArea

SpecArea == InitArea /\ [][NextArea]_vars

\* ------------------------------------------- two createDiff calls at once
\* The state of a buildDiffImage call when iterateRect has scheduled row 0.
started(p) ==
    [result |-> empty(Max(p.first.width, p.second.width),
                      Max(p.first.height, p.second.height)),
     differences |-> 0, pixelIgnored |-> FALSE,
     prevPrevRow |-> {}, prevRow |-> {}, currentRow |-> {}, y |-> 0,
     built |-> None, endCalls |-> 0, oobWrites |-> {}, lateSetPixel |-> FALSE,
     rowsScanned |-> <<>>, checkedRows |-> <<>>, pixelReads |-> 0,
     comparatorCalls |-> 0, saveCalls |-> 0, delivered |-> <<>>, pc |-> "rows"]

\* createDiff has been called with the options o and its readPair callbacks
\* have run for the images p: buildDiffImage has scheduled row 0
building(o, p) ==
    /\ op = "createDiff" /\ given = o /\ opts = o
    /\ tolerance = <<getToleranceFromOpts(o).value>>
    /\ pair = p
    /\ otherPair = IF Truthy(o, "ignoreDifferentPixels") THEN p ELSE None
    /\ comparator = None
    /\ diffOptions =
          [highlightColor |-> HighlightColor,
           comparator |-> IF Truthy(o, "strict") THEN strictComparator
                          ELSE makeCIEDE2000Comparator(getToleranceFromOpts(o).value),
           ignoreDifferentPixels |-> Truthy(o, "ignoreDifferentPixels")]
    /\ result = started(p).result
    /\ differences = 0 /\ pixelIgnored = FALSE
    /\ prevPrevRow = {} /\ prevRow = {} /\ currentRow = {}
    /\ y = 0 /\ built = None /\ delivered = <<>>
    /\ readPairCalls = IF Truthy(o, "ignoreDifferentPixels") THEN 2 ELSE 1
    /\ pixelReads = 0 /\ comparatorCalls = 0 /\ saveCalls = 0
    /\ oobWrites = {} /\ lateSetPixel = FALSE /\ saveFailed = FALSE
    /\ rowsScanned = <<>> /\ checkedRows = <<>> /\ endCalls = 0
    /\ loadError = FALSE /\ scanResult = <<>>
    /\ callNo = 1 /\ firstDelivered = <<>>
    /\ areaInput = <<>> /\ areaOutput = None
    /\ pc = "rows"

\* The options of the two calls: the ones under which a difference of the
\* images is flagged, without and with the pixels to ignore.
TwoOpts ==
    {MkOpts(<<TRUE>>, <<>>, <<>>, <<>>, m) : m \in {<<>>, <<TRUE>>}}

\* createDiff was called twice with the same options and images, and both
\* calls have read their images
InitTwo ==
    \E o \in TwoOpts : \E s1 \in Sizes, s2 \in Sizes : \E p \in Pairs(s1, s2) :
        /\ building(o, p)
        /\ other = started(p)

\* a turn of the second call
otherProcessRow ==
    /\ other.pc = "rows"
    /\ LET own == closureOf(2) = 2
           b == rowTurn(withClosure(other, IF own THEN other ELSE self))
       IN  /\ other' = b
           /\ IF own
              THEN UNCHANGED <<differences, pixelIgnored, prevPrevRow, prevRow,
                               currentRow>>
              ELSE /\ differences' = b.differences
                   /\ pixelIgnored' = b.pixelIgnored
                   /\ prevPrevRow' = b.prevPrevRow
                   /\ prevRow' = b.prevRow
                   /\ currentRow' = b.currentRow
    /\ UNCHANGED <<callVars, pc, loadVars, result, y, built, oobWrites,
                   lateSetPixel, saveFailed, rowsScanned, checkedRows, endCalls,
                   delivered, countVars, areaVars, loadError, scanResult,
                   callNo, firstDelivered>>

\* the callback of pair.save of the second call
otherSaveCallback ==
    /\ other.pc = "saving"
    /\ \E error \in BOOLEAN :
          other' = [other EXCEPT
                      !.pc = "done",
                      !.delivered =
                          Append(@, IF error THEN Reject("SaveError")
                                    ELSE Resolve([equal |-> FALSE]))]
    /\ UNCHANGED <<callVars, pc, loadVars, buildVars, delivered, countVars,
                   areaVars, loadError, scanResult, callNo, firstDelivered>>

NextTwo ==
    \/ processRow
    \/ saveCallback
    \/ otherProcessRow
    \/ otherSaveCallback

SpecTwo == InitTwo /\ [][NextTwo]_vars

\* ------------------------------------------ the row scan under fair turns
\* iterateRect is handed the width and the height of the canvas: the two
\* rasters here have the size of the canvas, and the sizes include the
\* empty ones.
LiveSizes == (0 .. MaxWidth) \X (0 .. MaxHeight)

\* createDiff({strict: true, ...}) is about to call buildDiffImage
InitLive ==
    /\ op = "createDiff"
    /\ given = MkOpts(<<TRUE>>, <<>>, <<>>, <<>>, <<>>) /\ opts = given
    /\ Idle
    /\ areaInput = <<>> /\ areaOutput = None
    /\ pc = "build"

\* buildDiffImage(png1, png2, options, callback) on two rasters, up to its
\* iterateRect call, which schedules row 0
buildDiffImage ==
    /\ pc = "build"
    /\ \E s \in LiveSizes : \E p \in Pairs(s, s) :
          /\ pair' = p
          /\ buildStart(p)
    /\ tolerance' = <<getToleranceFromOpts(opts).value>>
    /\ diffOptions' = [highlightColor |-> HighlightColor,
                       comparator |-> strictComparator,
                       ignoreDifferentPixels |-> FALSE]
    /\ pc' = "rows"
    /\ UNCHANGED <<op, given, opts, otherPair, comparator, delivered,
                   countVars, areaVars, sideVars>>

NextLive == buildDiffImage \/ processRow \/ saveCallback

\* buildDiffImage is a synchronous call, setImmediate runs every callback
\* that was scheduled, and pair.save calls its callback
SpecLive ==
    /\ InitLive /\ [][NextLive]_vars
    /\ WF_vars(buildDiffImage) /\ WF_vars(processRow) /\ WF_vars(saveCallback)

\* ---------------------------------- a second call with the options object
\* the caller calls again with the images and the options object of a call
\* that reported a result
callAgain ==
    /\ callNo = 1 /\ pc = "done" /\ op \in {"looksSame", "getDiffArea"}
    /\ ~loadError
    /\ Len(delivered) = 1 /\ delivered[1].kind = "callback"
    /\ firstDelivered' = delivered
    /\ callNo' = 2
    /\ delivered' = <<>>
    /\ pc' = "start"
    /\ comparator' = None
    /\ scanResult' = <<>>
    /\ areaInput' = <<>> /\ areaOutput' = None
    /\ UNCHANGED <<callVars, pair, otherPair, diffOptions, buildVars, countVars,
                   other, loadError>>

\* The options objects the caller keeps for its calls.
AgainOpts ==
    {MkOpts(s, t, <<>>, <<>>, <<>>) :
        s \in StrictChoices, t \in {<<>>, <<10>>}} \ {MkOpts(<<TRUE>>, <<10>>, <<>>, <<>>, <<>>)}

InitAgain ==
    /\ op \in {"looksSame", "getDiffArea"} /\ given \in AgainOpts
    /\ opts = given
    /\ pc = "start"
    /\ Idle
    /\ areaInput = <<>> /\ areaOutput = None

NextAgain ==
    \/ looksSame
    \/ exportsGetDiffArea
    \/ looksSameOnPair
    \/ getDiffAreaOnPair
    \/ nextTick
    \/ onDiffPixelsCoords
    \/ callAgain

SpecAgain == InitAgain /\ [][NextAgain]_vars

\* ================================================================ claims
\* Definitions the properties are stated with; they are written from the
\* inputs, not from the three-row window.
DimsDiffer ==
    \/ pair.first.width # pair.second.width
    \/ pair.first.height # pair.second.height
Overlap == Cells(minWidth, minHeight)
Canvas == Cells(width, height)
Flagged == {c \in Overlap : pixelClass(c[1], c[2]) = "flagged"}
Neighbours(c) ==
    {d \in Canvas : d # c /\ Abs(d[1] - c[1]) <= 1 /\ Abs(d[2] - c[2]) <= 1}
Isolated == {c \in Flagged : Neighbours(c) \cap Flagged = {}}
Connected == Flagged \ Isolated
Original(c) == Paint(pair.first.px[c], <<100>>)
Highlight == Paint(HighlightColor, <<>>)
BuildDone == built # None
Settled(kind) == {i \in 1 .. Len(delivered) : delivered[i].kind = kind}

\* C1: when the builder completes on two equally sized rasters, every
\* flagged pixel without a flagged 8-neighbour shows the reference colour
\* and is not counted; if every flagged pixel is isolated the count is 0 and
\* the builder reports equal.
C1_IsolatedRetracted ==
    (BuildDone /\ ~DimsDiffer) =>
        /\ \A c \in Isolated : result[c] = Original(c)
        /\ differences <= Cardinality(Flagged) - Cardinality(Isolated)
        /\ (Flagged = Isolated => differences = 0 /\ built.equal)

C1_Witness ==
    /\ BuildDone /\ ~DimsDiffer
    /\ width = 3 /\ height = 3
    /\ Flagged = {<<1, 1>>}
    /\ differences = 0 /\ built.equal
    /\ result[<<1, 1>>] = Original(<<1, 1>>)

\* C2: when the builder completes, every flagged pixel with a flagged
\* 8-neighbour is still painted with the highlight colour and still counted,
\* wherever it lies on the canvas.
C2_ConnectedRetained ==
    BuildDone =>
        /\ \A c \in Connected : result[c] = Highlight
        /\ differences >= Cardinality(Connected)

C2_Witness ==
    /\ BuildDone
    /\ width = 3 /\ height = 3
    /\ Flagged = {<<2, 1>>, <<2, 2>>}
    /\ differences = 2
    /\ result[<<2, 1>>] = Highlight /\ result[<<2, 2>>] = Highlight

\* C3: when the builder completes on rasters of different sizes, every cell
\* outside the smaller raster is painted with the highlight colour and
\* counted, so the builder never reports equal.
C3_SizeMismatchCounted ==
    (BuildDone /\ DimsDiffer) =>
        /\ \A c \in Canvas \ Overlap : result[c] = Highlight
        /\ differences >= Cardinality(Canvas \ Overlap)
        /\ ~built.equal

\* C4: an operation called with strict:true and a tolerance throws the
\* configuration error and has then called readPair, read a pixel or run a
\* comparator not once.
C4_StrictWithToleranceThrows ==
    (pc # "start" /\ Truthy(given, "strict") /\ Has(given, "tolerance")) =>
        /\ delivered = <<Throw("TypeError")>>
        /\ pair = None
        /\ readPairCalls = 0 /\ pixelReads = 0 /\ comparatorCalls = 0

C4_Witness ==
    /\ op = "createDiff" /\ pc = "done"
    /\ Truthy(given, "strict") /\ Has(given, "tolerance")
    /\ delivered = <<Throw("TypeError")>>
    /\ readPairCalls = 0

\* C5: an operation called with a negative tolerance fails with an error and
\* neither reads a pixel nor runs a comparator.
C5_NegativeToleranceRejected ==
    (pc # "start" /\ Has(given, "tolerance") /\ given.tolerance < 0) =>
        /\ delivered = <<Throw("TypeError")>>
        /\ pixelReads = 0 /\ comparatorCalls = 0

\* C6: when looksSame has loaded rasters of different width or height, no
\* comparator is constructed and no pixel is read, and once the operation is
\* over its callback was called exactly once, with (null, false).
C6_LooksSameSizeMismatch ==
    (op = "looksSame" /\ pair # None /\ DimsDiffer) =>
        /\ comparator = None
        /\ pixelReads = 0 /\ comparatorCalls = 0
        /\ \/ pc = "tick" /\ delivered = <<>>
           \/ pc = "done" /\ delivered = <<Callback("null", <<FALSE>>)>>

C6_Witness ==
    /\ op = "looksSame" /\ pair # None /\ DimsDiffer
    /\ pair.first.width = pair.second.width
    /\ pc = "done"
    /\ delivered = <<Callback("null", <<FALSE>>)>>

\* C7: when exports.getDiffArea has loaded rasters of different width or
\* height, no pixel is scanned, and the result it reports is the rectangle at
\* the origin as wide as the wider and as high as the higher raster.
C7_DiffAreaSizeMismatch ==
    (op = "getDiffArea" /\ pair # None /\ DimsDiffer) =>
        /\ pixelReads = 0 /\ comparatorCalls = 0
        /\ \/ pc = "tick" /\ delivered = <<>>
           \/ /\ pc = "done"
              /\ delivered = <<Callback("null",
                    <<[left |-> 0, top |-> 0,
                       width |-> Max(pair.first.width, pair.second.width),
                       height |-> Max(pair.first.height, pair.second.height)]>>)>>

C7_Witness ==
    /\ op = "getDiffArea" /\ pc = "done" /\ pair # None
    /\ pair.first.width = 1 /\ pair.second.width = 3
    /\ pair.first.height = 2 /\ pair.second.height = 2
    /\ delivered = <<Callback("null",
          <<[left |-> 0, top |-> 0, width |-> 3, height |-> 2]>>)>>

\* C8: for a non-empty list of coordinates the bounding-box calculator
\* returns the smallest rectangle around them: every coordinate is inside it
\* and each of its four sides holds a coordinate.
C8_BoundingBoxMinimal ==
    areaOutput # None =>
        LET r == areaOutput
            S == {areaInput[i] : i \in 1 .. Len(areaInput)}
        IN  /\ \A c \in S : /\ r.left <= c[1] /\ c[1] < r.left + r.width
                            /\ r.top <= c[2] /\ c[2] < r.top + r.height
            /\ \E c \in S : c[1] = r.left
            /\ \E c \in S : c[1] = r.left + r.width - 1
            /\ \E c \in S : c[2] = r.top
            /\ \E c \in S : c[2] = r.top + r.height - 1

C8_Witness ==
    /\ areaInput = << <<2, 3>>, <<5, 3>>, <<2, 4>> >>
    /\ areaOutput = [left |-> 2, top |-> 3, width |-> 4, height |-> 2]

\* C9: whenever the createDiff promise resolves, the value it resolves with
\* has both the equal key and the pixelIgnored key.
C9_SummaryHasBothFlags ==
    \A i \in Settled("resolve") :
        {"equal", "pixelIgnored"} \subseteq DOMAIN delivered[i].value[1]

\* C10: the diff raster is saved at most once, only when the builder has
\* scanned and evaluated every canvas row and reported a non-zero count, and
\* no pixel of it is set afterwards; a save that fails rejects the promise
\* and never resolves it.
C10_SaveOnlyFinishedDiff ==
    /\ saveCalls <= 1
    /\ ~lateSetPixel
    /\ saveCalls = 1 =>
          /\ BuildDone /\ ~built.equal /\ differences # 0
          /\ \A r \in 0 .. height - 1 :
                /\ \E i \in 1 .. Len(rowsScanned) : rowsScanned[i] = r
                /\ \E i \in 1 .. Len(checkedRows) : checkedRows[i] = r
    /\ (BuildDone /\ built.equal) => saveCalls = 0
    /\ saveFailed => delivered = <<Reject("SaveError")>>

C10_Witness ==
    /\ saveCalls = 1 /\ saveFailed /\ pc = "done"
    /\ delivered = <<Reject("SaveError")>>
    /\ differences = 2

\* C11: in every scan the rows are worked on in increasing order, one row
\* in a turn: after n turns of a call the rows it has scanned are 0 .. n-1,
\* each with its rowDoneCallback done, whatever turns of the other call ran
\* in between.
InOrder(b) ==
    /\ b.y = Len(b.rowsScanned)
    /\ \A i \in 1 .. Len(b.rowsScanned) : b.rowsScanned[i] = i - 1
    /\ Len(b.checkedRows) >= Len(b.rowsScanned)
C11_RowsInOrder == InOrder(self) /\ InOrder(other)

C11_Witness ==
    /\ pc = "rows" /\ other.pc = "rows"
    /\ rowsScanned = <<0, 1, 2>>
    /\ other.rowsScanned = <<0, 1>>

\* C12: when the builder completes, the flag it reports is true exactly
\* when some pixel inside both rasters mismatches under the comparator and
\* the ignore predicate holds for it; every such pixel shows the reference
\* colour, and the count is at most the number of the other mismatches.
Mismatching ==
    {c \in Overlap : ~baseCompare(diffOptions.comparator,
                                  pair.first.px[c], pair.second.px[c])}
Ignorable ==
    IF diffOptions.ignoreDifferentPixels
    THEN {c \in Mismatching : ignoreDifferentPixels(c[1], c[2])}
    ELSE {}
C12_IgnoredPixels ==
    BuildDone =>
        /\ built.pixelIgnored <=> (Ignorable # {})
        /\ \A c \in Ignorable : result[c] = Original(c)
        /\ differences <= Cardinality(Mismatching \ Ignorable)

C12_Witness ==
    /\ BuildDone /\ built.pixelIgnored
    /\ Cardinality(Ignorable) = 1
    /\ Cardinality(Mismatching) = 2
    /\ pc = "done"

\* C13: exports.getDiffArea on two rasters of the same size reports null
\* when the scan found no coordinate and otherwise the smallest rectangle
\* around the coordinates found; the calculator is never called with an
\* empty list, and two identical rasters give null.
ScanCoords == {scanResult[1][i] : i \in 1 .. Len(scanResult[1])}
IsBoundingBox(r, S) ==
    /\ \A c \in S : /\ r.left <= c[1] /\ c[1] < r.left + r.width
                    /\ r.top <= c[2] /\ c[2] < r.top + r.height
    /\ \E c \in S : c[1] = r.left
    /\ \E c \in S : c[1] = r.left + r.width - 1
    /\ \E c \in S : c[2] = r.top
    /\ \E c \in S : c[2] = r.top + r.height - 1
C13_DiffAreaNullIffNoCoords ==
    /\ (areaOutput # None) => (areaInput # <<>>)
    /\ (op = "getDiffArea" /\ pc = "done" /\ scanResult # <<>>) =>
          /\ Len(delivered) = 1
          /\ delivered[1].kind = "callback" /\ delivered[1].err = "null"
          /\ (delivered[1].value = <<None>>) <=> (scanResult[1] = <<>>)
          /\ scanResult[1] # <<>> =>
                IsBoundingBox(delivered[1].value[1], ScanCoords)
          /\ pair.first = pair.second => delivered[1].value = <<None>>

C13_Witness ==
    /\ op = "getDiffArea" /\ pc = "done"
    /\ pair # None /\ pair.first = pair.second
    /\ pair.first.width = 2 /\ pair.first.height = 2
    /\ scanResult = << <<>> >>
    /\ delivered = <<Callback("null", <<None>>)>>

\* C14: the comparator each of the three operations applies is the base
\* comparator the options ask for, wrapped by the antialiasing wrapper when
\* ignoreAntialiasing is true or missing, and then by the caret wrapper when
\* ignoreCaret is true.
BaseAsked ==
    IF Truthy(given, "strict") THEN strictComparator
    ELSE makeCIEDE2000Comparator(IF Has(given, "tolerance")
                                 THEN given.tolerance ELSE JND)
WrappersAsked ==
    (IF ~Has(given, "ignoreAntialiasing") \/ Truthy(given, "ignoreAntialiasing")
     THEN <<"antialiasing">> ELSE <<>>)
    \o (IF Truthy(given, "ignoreCaret") THEN <<"caret">> ELSE <<>>)
ChainAsked == [BaseAsked EXCEPT !.wrappers = WrappersAsked]
C14_ComparatorChain ==
    /\ comparator # None => comparator = ChainAsked
    /\ diffOptions # None => diffOptions.comparator = ChainAsked

\* C15: when readPair reported an error, the operation is over, its
\* callback was called once with the error or its promise was rejected with
\* it, no pixel was read and no comparator was built or run, no row was
\* scanned, and nothing was saved.
C15_LoadFailureShortCircuits ==
    loadError =>
        /\ pc = "done"
        /\ delivered = <<IF op = "createDiff" THEN Reject("LoadError")
                         ELSE Callback("LoadError", <<>>)>>
        /\ comparator = None
        /\ pixelReads = 0 /\ comparatorCalls = 0
        /\ built = None /\ result = <<>> /\ rowsScanned = <<>>
        /\ saveCalls = 0

C15_Witness ==
    /\ loadError /\ op = "createDiff" /\ pc = "done"
    /\ pair # None /\ otherPair = None
    /\ readPairCalls = 2
    /\ delivered = <<Reject("LoadError")>>

\* C16: when two builds run with their turns interleaved, each build
\* reports the raster, the count and the flag it reports when its turns run
\* without any other turn in between.
RECURSIVE runAlone(_)
runAlone(b) == IF b.pc # "rows" THEN b ELSE runAlone(rowTurn(b))
Outcome(b) == <<b.result, b.differences, b.pixelIgnored, b.built>>
C16_BuildsIndependent ==
    /\ built # None => Outcome(self) = Outcome(runAlone(started(pair)))
    /\ other.built # None => Outcome(other) = Outcome(runAlone(started(pair)))

C16_Witness ==
    /\ pc = "rows" /\ y = 2
    /\ other.pc = "saving" /\ other.differences = 2
    /\ height = 3 /\ prevRow # {}

\* C17: under fair scheduling the scan ends: the end callback is called,
\* once, when every canvas row was scanned and checked and every canvas cell
\* was painted, and no row is worked on afterwards.
C17_RowScanTerminates ==
    /\ <>[](endCalls = 1 /\ pc # "rows")
    /\ [](endCalls <= 1)
    /\ [](endCalls = 1 =>
            /\ pc # "rows"
            /\ \A r \in 0 .. height - 1 :
                  /\ \E i \in 1 .. Len(rowsScanned) : rowsScanned[i] = r
                  /\ \E i \in 1 .. Len(checkedRows) : checkedRows[i] = r
            /\ \A c \in Canvas : result[c] # Blank)
    /\ [][endCalls = 1 => rowsScanned' = rowsScanned]_vars

C17_Witness ==
    /\ endCalls = 1 /\ pc = "done"
    /\ height = 0 /\ width = 2
    /\ rowsScanned = <<0>>

\* C18: a build writes no pixel outside the output raster and calls the
\* pixel callback for no row index at or beyond the canvas height.
C18_AccessesInBounds ==
    /\ oobWrites = {}
    /\ \A i \in 1 .. Len(rowsScanned) : rowsScanned[i] < height

\* C19: a second call with the options object and the images of a first
\* call that reported a result reports a result again, and the same one
\* when the images differ in size.
C19_SecondCallSameOutcome ==
    (callNo = 2 /\ pc = "done" /\ ~loadError) =>
        /\ Len(delivered) = 1
        /\ delivered[1].kind = "callback" /\ delivered[1].err = "null"
        /\ DimsDiffer => delivered = firstDelivered

\* C20: the counter is never negative; a canvas row is checked at most
\* once, and only when the row after it was scanned; when the builder
\* completes every canvas row was checked once and the counter is the number
\* of flagged pixels with a flagged 8-neighbour.
TimesChecked(r) ==
    Cardinality({i \in 1 .. Len(checkedRows) : checkedRows[i] = r})
C20_SlidingWindow ==
    /\ differences >= 0
    /\ pair # None =>
          \A r \in 0 .. height - 1 :
              /\ TimesChecked(r) <= 1
              /\ TimesChecked(r) = 1 =>
                    \E i \in 1 .. Len(rowsScanned) : rowsScanned[i] = r + 1
    /\ BuildDone =>
          /\ \A r \in 0 .. height - 1 : TimesChecked(r) = 1
          /\ differences = Cardinality(Connected)

C20_Witness ==
    /\ BuildDone /\ height = 3
    /\ checkedRows = <<-1, 0, 1, 2, 3>>
    /\ Cardinality(Isolated) = 1
    /\ Cardinality(Connected) = 0
    /\ differences = 0

====
